---- MODULE Spec2Model ----
(***************************************************************************)
(* Model of the two workflows of the portal front end:                     *)
(*   - Channel Registration: YouTubeChannelForm.onSubmit                   *)
(*     (src/src/components/admin/youtube/YouTubeChannelForm.tsx, the       *)
(*     declaration at lines 129-255, which redeclares and so replaces the  *)
(*     one at lines 23-103 of the same file);                              *)
(*   - Session Bootstrap: Login.checkSession (src/unnamed/part_000).       *)
(* Every await of the code is a suspension point: one action per response. *)
(* Strings the code computes on (channelId, source_url) are sequences of   *)
(* one-character strings.                                                  *)
(***************************************************************************)
EXTENDS Integers, Sequences, FiniteSets

\* ---------------------------------------------------------------- bounds
\* number of mounted form components (browser tabs / admins) sharing the store
NumClients == 2
\* submissions made in all
MaxSubmits == 3
\* times the effect of the login page runs checkSession
MaxRuns == 2

Clients == 1..NumClients

\* the checkSession runs, in the order the effect starts them
Runs == 1..MaxRuns

\* ---------------------------------------------------------------- inputs
Names == { <<>>, <<"n">>, <<"m">> }
ChannelIds == { <<>>, <<"@", "a">>, <<"U", "C">> }
FormValues == [name : Names, channelId : ChannelIds]

\* formSchema: both fields are strings of length >= 1
FormSchemaValid(v) == Len(v.name) >= 1 /\ Len(v.channelId) >= 1

\* ---------------------------------------------------------------- strings
BaseUrl == << "h","t","t","p","s",":","/","/","w","w","w",".","y","o","u","t","u","b","e",".","c","o","m","/" >>
ChannelSegment == << "c","h","a","n","n","e","l","/" >>

\* String.prototype.startsWith('@')
StartsWithAt(s) == Len(s) >= 1 /\ s[1] = "@"

SourceUrlAlwaysChannel(channelId) == BaseUrl \o ChannelSegment \o channelId

\* the template literal of the insert's source_url
SourceUrl(channelId) ==
    BaseUrl \o (IF StartsWithAt(channelId) THEN channelId ELSE ChannelSegment \o channelId)

NewRecordSwapped(v) ==
    [type |-> "youtube", name |-> v.channelId, source_id |-> v.name,
     source_url |-> SourceUrl(v.channelId)]

\* the object handed to insert()
NewRecord(v) ==
    [type |-> "youtube", name |-> v.name, source_id |-> v.channelId,
     source_url |-> SourceUrl(v.channelId)]

\* ---------------------------------------------------------------- record store
\* .select("id").eq("type", ...).eq("source_id", ...)
Select(st, type, sid) == { r \in st : r.type = type /\ r.source_id = sid }

\* .maybeSingle(): null for no row, the row for one, an error for several
MaybeSingle(rows) ==
    IF rows = {} THEN "absent"
    ELSE IF Cardinality(rows) = 1 THEN "found" ELSE "error"

\* responses the pre-check query can give: its result on the store, a returned
\* error, or a rejected promise
SelectOutcomes(st, sid) == { MaybeSingle(Select(st, "youtube", sid)), "error", "throw" }

\* responses the store can give to an insert: the unique constraint on
\* (type, source_id) rejects a duplicate with code 23505; any insert can be
\* refused for permission (42501) or fail otherwise
StoreInsertOutcomes(st, rec) ==
    IF Select(st, rec.type, rec.source_id) # {}
    THEN { "23505", "42501", "other" }
    ELSE { "ok", "42501", "other" }

\* outcomes of the awaited fetchYouTubeVideos(channelId) network call
FetchOutcomes == { "ok", "throw" }

\* ---------------------------------------------------------------- notifications
ToastAdded == "Channel added successfully"
ToastExists == "Channel already exists"
ToastError == "Error adding channel"
ToastSessionError == "Error checking session"
ToastSignUpError == "Error signing up"
ToastSignInError == "Error signing in"

\* ---------------------------------------------------------------- onSubmit branches
CheckBranchIgnoreError(checkError, existingChannel) ==
    IF existingChannel THEN "exists" ELSE "insert"

CheckBranchNoReturn(checkError, existingChannel) ==
    IF checkError THEN "throw" ELSE "insert"

\* what onSubmit does with the pre-check's result
CheckBranch(checkError, existingChannel) ==
    IF checkError THEN "throw"
    ELSE IF existingChannel THEN "exists"
    ELSE "insert"

InsertBranchUniqueAsSuccess(code) ==
    IF code = "ok" \/ code = "23505" THEN "success"
    ELSE IF code = "42501" THEN "login"
    ELSE "throw"

InsertBranchNoUnique(code) ==
    IF code = "ok" THEN "success"
    ELSE IF code = "42501" THEN "login"
    ELSE "throw"

InsertBranchNoPermission(code) ==
    IF code = "ok" THEN "success"
    ELSE IF code = "23505" THEN "exists"
    ELSE "throw"

\* what onSubmit does with the insert's result ("ok": error is null)
InsertBranch(code) ==
    IF code = "ok" THEN "success"
    ELSE IF code = "42501" THEN "login"
    ELSE IF code = "23505" THEN "exists"
    ELSE "throw"

\* ---------------------------------------------------------------- checkSession branches
SessionBranchNoReturn(error, hasSession) ==
    IF hasSession THEN "navigate" ELSE "signIn"

\* after getSession
SessionBranch(error, hasSession) ==
    IF error THEN "fail"
    ELSE IF hasSession THEN "navigate"
    ELSE "signIn"

\* after the first signInWithPassword
SignInBranch(signInError) == IF signInError THEN "signUp" ELSE "navigate"

SignUpBranchNoReturn(signUpError) == "retry"

\* after signUp
SignUpBranch(signUpError) == IF signUpError THEN "fail" ELSE "retry"

RetryBranchNoCheck(retryError) == "navigate"

RetryBranchLoop(retryError) == IF retryError THEN "signUp" ELSE "navigate"

\* after the second signInWithPassword
RetryBranch(retryError) == IF retryError THEN "fail" ELSE "navigate"

\* ---------------------------------------------------------------- navigation
Routes == { "/login", "/admin", "/admin/youtube" }

\* what navigate(-1) can do: move when there is history; with none it does
\* nothing, or throws
NavBackOutcomes(hist) == IF Len(hist) > 0 THEN { "moved" } ELSE { "noop", "throws" }

\* try { navigate(-1) } catch { navigate("/admin") }: the navigate calls made
NavCalls(back) == IF back = "throws" THEN << "back", "/admin" >> ELSE << "back" >>

\* ... and where the user is afterwards
NavLocation(back, hist, loc) ==
    IF back = "moved" THEN hist[Len(hist)]
    ELSE IF back = "throws" THEN "/admin"
    ELSE loc

NavHistory(back, hist, loc) ==
    IF back = "moved" THEN SubSeq(hist, 1, Len(hist) - 1)
    ELSE IF back = "throws" THEN Append(hist, loc)
    ELSE hist

AuthOutcomes == { "ok", "error", "throw" }

\* responses of getSession: the stored session or none, a returned error, or a
\* rejected promise
GetSessionOutcomes(sess) == { IF sess THEN "session" ELSE "none", "error", "throw" }

\* responses of signInWithPassword: it succeeds only for an existing account
SignInOutcomes(exists) == IF exists THEN { "ok", "error", "throw" } ELSE { "error", "throw" }

\* responses of signUp: it succeeds only when the account does not exist yet
SignUpOutcomes(exists) == IF exists THEN { "error", "throw" } ELSE { "ok", "error", "throw" }

\* ---------------------------------------------------------------- state
VARIABLES
    store,          \* content_sources table: set of records
    pc,             \* per form: where its onSubmit is suspended
    values,         \* per form: the argument of the running onSubmit
    isLoading,      \* per form: useState(false)
    hasOnSuccess,   \* whether the page supplies the onSuccess prop to the form
    submits,        \* submissions started so far
    checkResult,    \* per form: response of the pre-check ("none" before)
    insertResult,   \* per form: response of the insert ("none" before)
    insertAttempts, \* per form: insert() calls of the running submission
    toasts,         \* per form: toast() titles of the running submission
    navs,           \* per form: navigate() targets of the running submission
    fetchCalls,     \* per form: fetchYouTubeVideos() arguments of the submission
    resets,         \* per form: form.reset() calls of the submission
    onSuccessCalls, \* per form: onSuccess() calls of the submission
    lpc,            \* per run: where checkSession is suspended ("idle": not started)
    session,        \* auth provider: whether a session is present
    accountExists,  \* auth provider: whether the console user exists
    history,        \* login tab: routes behind the current one
    location,       \* login tab: current route
    authCalls,      \* per run: its auth calls with their responses
    ltoasts,        \* per run: its toast() titles
    lnavs,          \* per run: its navigate() targets
    runs            \* checkSession runs started so far

formVars == << pc, values, isLoading, hasOnSuccess, submits, checkResult, insertResult,
               insertAttempts, toasts, navs, fetchCalls, resets, onSuccessCalls >>
loginVars == << lpc, session, accountExists, history, location, authCalls, ltoasts, lnavs, runs >>
vars == << store, formVars, loginVars >>

NoValues == [name |-> <<>>, channelId |-> <<>>]

FormStart ==
    /\ store = {}
    /\ pc = [c \in Clients |-> "idle"]
    /\ values = [c \in Clients |-> NoValues]
    /\ isLoading = [c \in Clients |-> FALSE]
    /\ submits = 0
    /\ checkResult = [c \in Clients |-> "none"]
    /\ insertResult = [c \in Clients |-> "none"]
    /\ insertAttempts = [c \in Clients |-> 0]
    /\ toasts = [c \in Clients |-> <<>>]
    /\ navs = [c \in Clients |-> <<>>]
    /\ fetchCalls = [c \in Clients |-> <<>>]
    /\ resets = [c \in Clients |-> 0]
    /\ onSuccessCalls = [c \in Clients |-> 0]

LoginStart ==
    /\ lpc = [r \in Runs |-> IF r = 1 THEN "getSession" ELSE "idle"]
    /\ location = "/login"
    /\ authCalls = [r \in Runs |-> <<>>]
    /\ ltoasts = [r \in Runs |-> <<>>]
    /\ lnavs = [r \in Runs |-> <<>>]
    /\ runs = 1

\* the form is mounted with or without an onSuccess prop
FormInit ==
    /\ FormStart
    /\ hasOnSuccess \in BOOLEAN
    /\ LoginStart
    /\ session = FALSE
    /\ accountExists = FALSE
    /\ history = <<>>

\* the login page is opened with or without a session and a history
LoginInit ==
    /\ LoginStart
    /\ session \in BOOLEAN
    /\ accountExists \in BOOLEAN
    /\ history \in { <<>>, << "/admin/youtube" >> }
    /\ FormStart
    /\ hasOnSuccess = FALSE

\* ---------------------------------------------------------------- Channel Registration
\* the submit button is disabled while isLoading; handleSubmit runs onSubmit
\* only on values the schema accepts; onSubmit sets the flag and issues the
\* pre-check query
Submit(c, v) ==
    /\ pc[c] \in { "idle", "done" }
    /\ ~isLoading[c]
    /\ submits < MaxSubmits
    /\ FormSchemaValid(v)
    /\ submits' = submits + 1
    /\ values' = [values EXCEPT ![c] = v]
    /\ isLoading' = [isLoading EXCEPT ![c] = TRUE]
    /\ pc' = [pc EXCEPT ![c] = "select"]
    /\ checkResult' = [checkResult EXCEPT ![c] = "none"]
    /\ insertResult' = [insertResult EXCEPT ![c] = "none"]
    /\ insertAttempts' = [insertAttempts EXCEPT ![c] = 0]
    /\ toasts' = [toasts EXCEPT ![c] = <<>>]
    /\ navs' = [navs EXCEPT ![c] = <<>>]
    /\ fetchCalls' = [fetchCalls EXCEPT ![c] = <<>>]
    /\ resets' = [resets EXCEPT ![c] = 0]
    /\ onSuccessCalls' = [onSuccessCalls EXCEPT ![c] = 0]
    /\ UNCHANGED << store, hasOnSuccess, loginVars >>

\* the pre-check query answers; onSubmit runs up to its next await or its end
CheckReturn(c, out) ==
    /\ pc[c] = "select"
    /\ out \in SelectOutcomes(store, values[c].channelId)
    /\ checkResult' = [checkResult EXCEPT ![c] = out]
    /\ LET br == IF out = "throw" THEN "throw"
                 ELSE CheckBranch(out = "error", out = "found")
       IN  CASE br = "throw" ->
                 /\ toasts' = [toasts EXCEPT ![c] = Append(@, ToastError)]
                 /\ pc' = [pc EXCEPT ![c] = "done"]
                 /\ isLoading' = [isLoading EXCEPT ![c] = FALSE]
                 /\ UNCHANGED insertAttempts
             [] br = "exists" ->
                 /\ toasts' = [toasts EXCEPT ![c] = Append(@, ToastExists)]
                 /\ pc' = [pc EXCEPT ![c] = "done"]
                 /\ isLoading' = [isLoading EXCEPT ![c] = FALSE]
                 /\ UNCHANGED insertAttempts
             [] OTHER ->
                 /\ insertAttempts' = [insertAttempts EXCEPT ![c] = @ + 1]
                 /\ pc' = [pc EXCEPT ![c] = "insert"]
                 /\ UNCHANGED << toasts, isLoading >>
    /\ UNCHANGED << store, values, hasOnSuccess, submits, insertResult, navs,
                    fetchCalls, resets, onSuccessCalls, loginVars >>

\* the insert answers: the store adds the record when it accepts it; onSubmit
\* runs up to the await of fetchYouTubeVideos or to its end
InsertReturn(c, out) ==
    /\ pc[c] = "insert"
    /\ out \in StoreInsertOutcomes(store, NewRecord(values[c])) \cup { "throw" }
    /\ insertResult' = [insertResult EXCEPT ![c] = out]
    /\ store' = IF out = "ok" THEN store \cup { NewRecord(values[c]) } ELSE store
    /\ LET br == IF out = "throw" THEN "throw" ELSE InsertBranch(out)
       IN  CASE br = "success" ->
                 /\ toasts' = [toasts EXCEPT ![c] = Append(@, ToastAdded)]
                 /\ fetchCalls' = [fetchCalls EXCEPT ![c] = Append(@, values[c].channelId)]
                 /\ pc' = [pc EXCEPT ![c] = "fetch"]
                 /\ UNCHANGED << navs, isLoading >>
             [] br = "login" ->
                 /\ navs' = [navs EXCEPT ![c] = Append(@, "/login")]
                 /\ pc' = [pc EXCEPT ![c] = "done"]
                 /\ isLoading' = [isLoading EXCEPT ![c] = FALSE]
                 /\ UNCHANGED << toasts, fetchCalls >>
             [] br = "exists" ->
                 /\ toasts' = [toasts EXCEPT ![c] = Append(@, ToastExists)]
                 /\ pc' = [pc EXCEPT ![c] = "done"]
                 /\ isLoading' = [isLoading EXCEPT ![c] = FALSE]
                 /\ UNCHANGED << navs, fetchCalls >>
             [] OTHER ->
                 /\ toasts' = [toasts EXCEPT ![c] = Append(@, ToastError)]
                 /\ pc' = [pc EXCEPT ![c] = "done"]
                 /\ isLoading' = [isLoading EXCEPT ![c] = FALSE]
                 /\ UNCHANGED << navs, fetchCalls >>
    /\ UNCHANGED << values, hasOnSuccess, submits, checkResult, insertAttempts,
                    resets, onSuccessCalls, loginVars >>

FetchReturnNoFinally(c, out) ==
    /\ pc[c] = "fetch"
    /\ out \in FetchOutcomes
    /\ IF out = "ok"
       THEN /\ resets' = [resets EXCEPT ![c] = @ + 1]
            /\ onSuccessCalls' = [onSuccessCalls EXCEPT ![c] = IF hasOnSuccess THEN @ + 1 ELSE @]
            /\ isLoading' = [isLoading EXCEPT ![c] = FALSE]
            /\ UNCHANGED toasts
       ELSE /\ toasts' = [toasts EXCEPT ![c] = Append(@, ToastError)]
            /\ UNCHANGED << resets, onSuccessCalls, isLoading >>
    /\ pc' = [pc EXCEPT ![c] = "done"]
    /\ UNCHANGED << store, values, hasOnSuccess, submits, checkResult, insertResult,
                    insertAttempts, navs, fetchCalls, loginVars >>

\* the awaited fetchYouTubeVideos settles: on fulfilment the form is reset and
\* onSuccess called; a rejection lands in the catch block
FetchReturn(c, out) ==
    /\ pc[c] = "fetch"
    /\ out \in FetchOutcomes
    /\ IF out = "ok"
       THEN /\ resets' = [resets EXCEPT ![c] = @ + 1]
            /\ onSuccessCalls' = [onSuccessCalls EXCEPT ![c] = IF hasOnSuccess THEN @ + 1 ELSE @]
            /\ UNCHANGED toasts
       ELSE /\ toasts' = [toasts EXCEPT ![c] = Append(@, ToastError)]
            /\ UNCHANGED << resets, onSuccessCalls >>
    /\ pc' = [pc EXCEPT ![c] = "done"]
    /\ isLoading' = [isLoading EXCEPT ![c] = FALSE]
    /\ UNCHANGED << store, values, hasOnSuccess, submits, checkResult, insertResult,
                    insertAttempts, navs, fetchCalls, loginVars >>

\* ---------------------------------------------------------------- Session Bootstrap
\* the try/catch around navigate(-1) in run r, for a response of navigate(-1)
Navigate(r, back) ==
    /\ back \in NavBackOutcomes(history)
    /\ lnavs' = [lnavs EXCEPT ![r] = @ \o NavCalls(back)]
    /\ location' = NavLocation(back, history, location)
    /\ history' = NavHistory(back, history, location)

\* one step of run r of checkSession after a response: an unhandled rejection
\* ends the run, "fail" toasts and returns, "navigate" navigates, else the
\* next call
LoginStep(r, call, out, br, title) ==
    /\ authCalls' = [authCalls EXCEPT ![r] = Append(@, << call, out >>)]
    /\ session' = IF call = "signIn" /\ out = "ok" THEN TRUE ELSE session
    /\ accountExists' = IF call = "signUp" /\ out = "ok" THEN TRUE ELSE accountExists
    /\ CASE out = "throw" ->
             /\ lpc' = [lpc EXCEPT ![r] = "crashed"]
             /\ UNCHANGED << ltoasts, lnavs, location, history >>
         [] out # "throw" /\ br = "fail" ->
             /\ ltoasts' = [ltoasts EXCEPT ![r] = Append(@, title)]
             /\ lpc' = [lpc EXCEPT ![r] = "done"]
             /\ UNCHANGED << lnavs, location, history >>
         [] out # "throw" /\ br = "navigate" ->
             /\ \E back \in NavBackOutcomes(history) : Navigate(r, back)
             /\ lpc' = [lpc EXCEPT ![r] = "done"]
             /\ UNCHANGED ltoasts
         [] OTHER ->
             /\ lpc' = [lpc EXCEPT ![r] = br]
             /\ UNCHANGED << ltoasts, lnavs, location, history >>
    /\ UNCHANGED << store, formVars, runs >>

GetSessionReturn(r, out) ==
    /\ lpc[r] = "getSession"
    /\ out \in GetSessionOutcomes(session)
    /\ LoginStep(r, "getSession", out, SessionBranch(out = "error", out = "session"),
                 ToastSessionError)

SignInReturn(r, out) ==
    /\ lpc[r] = "signIn"
    /\ out \in SignInOutcomes(accountExists)
    /\ LoginStep(r, "signIn", out, SignInBranch(out = "error"), ToastSignInError)

SignUpReturn(r, out) ==
    /\ lpc[r] = "signUp"
    /\ out \in SignUpOutcomes(accountExists)
    /\ LoginStep(r, "signUp", out, SignUpBranch(out = "error"), ToastSignUpError)

RetryReturn(r, out) ==
    /\ lpc[r] = "retry"
    /\ out \in SignInOutcomes(accountExists)
    /\ LoginStep(r, "signIn", out, RetryBranch(out = "error"), ToastSignInError)

\* the effect runs again (the login page is opened again, a dependency
\* changes): it starts a further checkSession; the effect has no cleanup, so
\* the runs started before go on
Mount(hist) ==
    /\ runs < MaxRuns
    /\ hist \in { <<>>, << "/admin/youtube" >> }
    /\ runs' = runs + 1
    /\ lpc' = [lpc EXCEPT ![runs + 1] = "getSession"]
    /\ history' = hist
    /\ location' = "/login"
    /\ UNCHANGED << store, formVars, session, accountExists, authCalls, ltoasts, lnavs >>

\* ---------------------------------------------------------------- specification
FormNext ==
    \/ \E c \in Clients, v \in FormValues : Submit(c, v)
    \/ \E c \in Clients, out \in { "absent", "found", "error", "throw" } : CheckReturn(c, out)
    \/ \E c \in Clients, out \in { "ok", "23505", "42501", "other", "throw" } : InsertReturn(c, out)
    \/ \E c \in Clients, out \in FetchOutcomes : FetchReturn(c, out)

LoginNext ==
    \/ \E r \in Runs, out \in { "session", "none", "error", "throw" } : GetSessionReturn(r, out)
    \/ \E r \in Runs, out \in AuthOutcomes : SignInReturn(r, out)
    \/ \E r \in Runs, out \in AuthOutcomes : SignUpReturn(r, out)
    \/ \E r \in Runs, out \in AuthOutcomes : RetryReturn(r, out)
    \/ \E hist \in { <<>>, << "/admin/youtube" >> } : Mount(hist)

\* Channel Registration: the form components and the store they share
Spec == FormInit /\ [][FormNext]_vars

\* Session Bootstrap: the login page and the auth provider
LoginSpec == LoginInit /\ [][LoginNext]_vars

\* ---------------------------------------------------------------- Channel Registration: claims
\* C1: when two submissions of the same channelId both pass the pre-check and
\* one insert succeeds, the other, rejected with code 23505, ends with the
\* "already exists" notification alone: no generic failure, no navigation.
C1_RaceLoserAlreadyExists ==
    \A c, d \in Clients :
        ( /\ c # d
          /\ values[c].channelId = values[d].channelId
          /\ checkResult[c] = "absent" /\ checkResult[d] = "absent"
          /\ insertResult[d] = "ok"
          /\ insertResult[c] = "23505" )
        => /\ pc[c] = "done"
           /\ toasts[c] = << ToastExists >>
           /\ navs[c] = <<>>

C1_Witness ==
    \E c, d \in Clients :
        /\ c # d
        /\ values[c].channelId = values[d].channelId
        /\ checkResult[c] = "absent" /\ checkResult[d] = "absent"
        /\ insertResult[d] = "ok"
        /\ insertResult[c] = "23505"
        /\ pc[c] = "done"

UniqueSources ==
    \A r1, r2 \in store :
        (r1.type = r2.type /\ r1.source_id = r2.source_id) => r1 = r2

Registered(sid) == Select(store, "youtube", sid) # {}

\* a step that changes the store adds one record, that of a form whose
\* pre-check found none, under a (type, source_id) no record had
RegistersOnlyIfAbsent ==
    store' # store =>
        \E c \in Clients :
            /\ checkResult[c] = "absent"
            /\ store' = store \cup { NewRecord(values[c]) }
            /\ NewRecord(values[c]).source_id = values[c].channelId
            /\ Select(store, "youtube", values[c].channelId) = {}

\* C2 as claimed: at most one record per (type, source_id), a record is
\* added only when none existed for the identifier, and it is added whenever
\* none existed: once a submission has terminated its channelId is
\* registered.
C2_RegisteredIffAbsent ==
    /\ []UniqueSources
    /\ [][RegistersOnlyIfAbsent]_vars
    /\ [](\A c \in Clients : pc[c] = "done" => Registered(values[c].channelId))

NoCallFailed(c) ==
    /\ checkResult[c] \in { "absent", "found" }
    /\ insertResult[c] \in { "none", "ok", "23505" }

\* C2 as amended: at most one record per (type, source_id); a record is added
\* only by a submission whose pre-check found none and only when the store
\* held none for the identifier; and once a submission has terminated with
\* neither its pre-check nor its insert failing (the insert accepted, or
\* refused as a duplicate), its channelId is registered.
C2_AtMostOnePerSourceId ==
    /\ []UniqueSources
    /\ [][RegistersOnlyIfAbsent]_vars
    /\ [](\A c \in Clients :
            (pc[c] = "done" /\ NoCallFailed(c)) => Registered(values[c].channelId))

C2_Witness ==
    /\ Cardinality(store) = 2
    /\ \E c, d \in Clients :
        /\ c # d
        /\ values[c].channelId = values[d].channelId
        /\ values[c].name # values[d].name
        /\ insertResult[c] = "23505" /\ pc[c] = "done"
        /\ insertResult[d] = "ok" /\ pc[d] = "done"

\* C3: a submission whose pre-check found a record with type "youtube" and
\* source_id = channelId has ended with the "already exists" notification
\* alone and has issued no insert.
C3_FoundMeansNoInsert ==
    \A c \in Clients :
        checkResult[c] = "found"
        => /\ Select(store, "youtube", values[c].channelId) # {}
           /\ pc[c] = "done"
           /\ toasts[c] = << ToastExists >>
           /\ insertAttempts[c] = 0
           /\ insertResult[c] = "none"
           /\ navs[c] = <<>>

C3_Witness ==
    \E c \in Clients : checkResult[c] = "found" /\ pc[c] = "done"

\* C4: a submission that has terminated has reported exactly one outcome:
\* one notification and no navigation, or the navigation to login and no
\* notification.
C4_ExactlyOneOutcome ==
    \A c \in Clients :
        pc[c] = "done" => Len(toasts[c]) + Len(navs[c]) = 1

\* C5: a terminated submission whose insert succeeded has emitted the success
\* notification, triggered the video fetch for its channelId, reset the form,
\* and called onSuccess when supplied, whatever the outcome of the fetch.
C5_SuccessEffects ==
    \A c \in Clients :
        (pc[c] = "done" /\ insertResult[c] = "ok")
        => /\ toasts[c][1] = ToastAdded
           /\ fetchCalls[c] = << values[c].channelId >>
           /\ resets[c] = 1
           /\ (hasOnSuccess => onSuccessCalls[c] = 1)

\* C6: a submission whose insert was refused with code 42501 has navigated to
\* /login and has emitted no notification and triggered no video fetch.
C6_PermissionDeniedRedirects ==
    \A c \in Clients :
        insertResult[c] = "42501"
        => /\ pc[c] = "done"
           /\ navs[c] = << "/login" >>
           /\ toasts[c] = <<>>
           /\ fetchCalls[c] = <<>>

C6_Witness ==
    \E c \in Clients : insertResult[c] = "42501" /\ pc[c] = "done"

\* ---------------------------------------------------------------- Session Bootstrap: claims
Navigated(r) == lnavs[r] \in { << "back" >>, << "back", "/admin" >> }

SignedIn(r) == \E i \in 1..Len(authCalls[r]) : authCalls[r][i] = << "signIn", "ok" >>

SessionFound(r) == Len(authCalls[r]) >= 1 /\ authCalls[r][1] = << "getSession", "session" >>

\* C7: a run in which every auth call returned ends either with a navigation
\* and no notification, the session having been found or a sign-in having
\* succeeded, or with one failure notification and no navigation.
C7_NavigateXorNotify ==
    \A r \in Runs :
        lpc[r] = "done"
        => \/ Navigated(r) /\ ltoasts[r] = <<>> /\ (SessionFound(r) \/ SignedIn(r))
           \/ lnavs[r] = <<>> /\ Len(ltoasts[r]) = 1

C7_Witness ==
    \E r, q \in Runs :
        /\ lpc[r] = "done"
        /\ authCalls[r] = << << "getSession", "none" >>, << "signIn", "ok" >> >>
        /\ Navigated(r)
        /\ lpc[q] = "done"
        /\ Len(ltoasts[q]) = 1 /\ lnavs[q] = <<>>

SignUpFailed(r) ==
    /\ Len(authCalls[r]) >= 3
    /\ authCalls[r][1] = << "getSession", "none" >>
    /\ authCalls[r][2] = << "signIn", "error" >>
    /\ authCalls[r][3] = << "signUp", "error" >>

\* C8: with no session, a failed sign-in and a failed sign-up, the run has
\* ended with the sign-up failure notification, no navigation and no second
\* sign-in.
C8_SignUpFailureStops ==
    \A r \in Runs :
        SignUpFailed(r)
        => /\ lpc[r] = "done"
           /\ Len(authCalls[r]) = 3
           /\ ltoasts[r] = << ToastSignUpError >>
           /\ lnavs[r] = <<>>

C8_Witness ==
    \E r \in Runs : SignUpFailed(r) /\ lpc[r] = "done" /\ Len(authCalls[r]) = 3

RetrySucceeded(r) ==
    /\ Len(authCalls[r]) >= 4
    /\ authCalls[r][1] = << "getSession", "none" >>
    /\ authCalls[r][2] = << "signIn", "error" >>
    /\ authCalls[r][3] = << "signUp", "ok" >>
    /\ authCalls[r][4] = << "signIn", "ok" >>

\* C9: with no session, a failed sign-in, a successful sign-up and a
\* successful second sign-in, the run has ended with navigate(-1) and no
\* notification; the step that navigates goes back to the last route when
\* there is history, and goes to the fallback route /admin when there is none.
C9_RetrySuccessNavigates ==
    /\ [](\A r \in Runs :
            RetrySucceeded(r)
            => /\ lpc[r] = "done"
               /\ Len(authCalls[r]) = 4
               /\ ltoasts[r] = <<>>
               /\ Navigated(r))
    /\ [][\A r \in Runs :
            (RetrySucceeded(r)' /\ lnavs'[r] # lnavs[r])
            => /\ history # <<>>
                  => (lnavs'[r] = << "back" >> /\ location' = history[Len(history)])
               /\ history = <<>>
                  => (lnavs'[r] = << "back", "/admin" >> /\ location' = "/admin")]_vars

\* the part of C9 that is about the calls issued: such a run ends with no
\* notification and with navigate(-1), followed by navigate("/admin") only
\* when there was no history
RetrySuccessIssuesNavigation ==
    /\ [](\A r \in Runs :
            RetrySucceeded(r)
            => /\ lpc[r] = "done"
               /\ Len(authCalls[r]) = 4
               /\ ltoasts[r] = <<>>
               /\ Navigated(r))
    /\ [][\A r \in Runs :
            (RetrySucceeded(r)' /\ lnavs'[r] # lnavs[r])
            => /\ lnavs'[r] = << "back", "/admin" >> => (history = <<>> /\ location' = "/admin")
               /\ history # <<>>
                  => (lnavs'[r] = << "back" >> /\ location' = history[Len(history)])]_vars

\* C10: a run whose session query returned an error has ended with the
\* session failure notification and nothing else: no sign-in, no sign-up, no
\* navigation.
C10_SessionErrorStops ==
    \A r \in Runs :
        ( Len(authCalls[r]) >= 1 /\ authCalls[r][1] = << "getSession", "error" >> )
        => /\ lpc[r] = "done"
           /\ Len(authCalls[r]) = 1
           /\ ltoasts[r] = << ToastSessionError >>
           /\ lnavs[r] = <<>>

C10_Witness ==
    \E r \in Runs :
        /\ authCalls[r] = << << "getSession", "error" >> >>
        /\ lpc[r] = "done"
        /\ ltoasts[r] = << ToastSessionError >>

\* C11: a step in which a run navigates while there is no history to go back
\* to leaves the user on /admin, not on the login page.
C11_FallbackRouteReached ==
    [][\A r \in Runs :
        (lnavs'[r] # lnavs[r] /\ history = <<>>) => location' = "/admin"]_vars

\* ---------------------------------------------------------------- source_url: claim
UrlSegment(url) ==
    LET last == Len(BaseUrl) + Len(ChannelSegment)
    IN  SubSeq(url, Len(BaseUrl) + 1, IF last <= Len(url) THEN last ELSE Len(url))

UrlTail(url, n) == SubSeq(url, Len(url) - n + 1, Len(url))

\* C12: the source_url of every inserted record starts with the base URL and
\* ends with the channelId; for an "@" channelId nothing lies between them,
\* otherwise exactly "channel/" does: the path segment after the base URL is
\* "channel/" exactly when the channelId lacks the "@" prefix.
C12_SourceUrlShape ==
    \A r \in store :
        LET id == r.source_id
            url == r.source_url
            at == id[1] = "@"
        IN  /\ SubSeq(url, 1, Len(BaseUrl)) = BaseUrl
            /\ UrlTail(url, Len(id)) = id
            /\ Len(url) = Len(BaseUrl) + Len(id) + (IF at THEN 0 ELSE Len(ChannelSegment))
            /\ (UrlSegment(url) = ChannelSegment) <=> ~at

C12_Witness ==
    /\ \E r \in store : r.source_id = << "@", "a" >>
    /\ \E r \in store : r.source_id = << "U", "C" >>

\* ---------------------------------------------------------------- linear chain: claim
CallsOf(r, op) == { i \in 1..Len(authCalls[r]) : authCalls[r][i][1] = op }

\* C13: in a run the session query is answered once and first, sign-in at most
\* twice and sign-up at most once; sign-up comes only right after a failed
\* first sign-in, and the second sign-in only right after a successful sign-up.
C13_LinearFallbackChain ==
    \A r \in Runs :
        /\ CallsOf(r, "getSession") \subseteq { 1 }
        /\ Len(authCalls[r]) >= 1 => authCalls[r][1][1] = "getSession"
        /\ Cardinality(CallsOf(r, "signIn")) <= 2
        /\ Cardinality(CallsOf(r, "signUp")) <= 1
        /\ CallsOf(r, "signIn") \subseteq { 2, 4 }
        /\ CallsOf(r, "signUp") \subseteq { 3 }
        /\ Len(authCalls[r]) >= 2 => authCalls[r][1] = << "getSession", "none" >>
        /\ Len(authCalls[r]) >= 3 => authCalls[r][2] = << "signIn", "error" >>
        /\ Len(authCalls[r]) >= 4 => authCalls[r][3] = << "signUp", "ok" >>
        /\ Len(authCalls[r]) <= 4
        /\ lpc[r] \in { "idle", "getSession" } => Len(authCalls[r]) = 0
        /\ lpc[r] = "signIn" => Len(authCalls[r]) = 1
        /\ lpc[r] = "signUp" => Len(authCalls[r]) = 2
        /\ lpc[r] = "retry" => Len(authCalls[r]) = 3

C13_Witness ==
    \E r \in Runs :
        /\ Len(authCalls[r]) = 4
        /\ authCalls[r][4] = << "signIn", "error" >>
        /\ lpc[r] = "done"

\* ---------------------------------------------------------------- Channel Registration: more claims
\* C14: a submission whose pre-check returned an error has ended with the
\* generic failure notification alone and issued no insert; one whose insert
\* returned an error other than 42501 and 23505 has ended with the generic
\* failure notification alone.
C14_ErrorsGiveGenericFailure ==
    \A c \in Clients :
        /\ checkResult[c] = "error"
           => /\ pc[c] = "done"
              /\ toasts[c] = << ToastError >>
              /\ insertAttempts[c] = 0
              /\ navs[c] = <<>>
        /\ insertResult[c] = "other"
           => /\ pc[c] = "done"
              /\ toasts[c] = << ToastError >>
              /\ navs[c] = <<>>
              /\ fetchCalls[c] = <<>>

C14_Witness ==
    \E c, d \in Clients :
        /\ checkResult[c] = "error" /\ pc[c] = "done"
        /\ insertResult[d] = "other" /\ pc[d] = "done"

LastCallFailed(r) ==
    /\ Len(authCalls[r]) >= 1
    /\ authCalls[r][Len(authCalls[r])][2] \in { "error", "throw" }

\* C15: no failure of a network call escapes the workflow: no run ends in an
\* unhandled rejection, and a run ended by a failed call has notified it.
C15_NoUnhandledError ==
    \A r \in Runs :
        /\ lpc[r] # "crashed"
        /\ (lpc[r] = "done" /\ LastCallFailed(r)) => Len(ltoasts[r]) = 1

\* the part of C15 that is about Channel Registration: a submission ended by
\* a failed pre-check, insert or video fetch, returned or thrown, has notified
\* the generic failure
FormFailuresNotified ==
    \A c \in Clients :
        ( \/ checkResult[c] \in { "error", "throw" }
          \/ insertResult[c] \in { "other", "throw" } )
        => pc[c] = "done" /\ toasts[c] = << ToastError >>

EndsWithoutSuccess(c) ==
    /\ pc[c] = "done"
    /\ \/ navs[c] # <<>>
       \/ /\ toasts[c] # <<>>
          /\ toasts[c][Len(toasts[c])] \in { ToastExists, ToastError }

\* a step never removes or alters a record; a step that changes the store is
\* the accepted insert of one form and adds that form's record and no other
StoreFrame ==
    /\ store \subseteq store'
    /\ store' # store =>
         \E c \in Clients :
            /\ pc[c] = "insert" /\ insertResult'[c] = "ok"
            /\ store' = store \cup { NewRecord(values[c]) }
            /\ NewRecord(values[c]).type = "youtube"
            /\ NewRecord(values[c]).name = values[c].name
            /\ NewRecord(values[c]).source_id = values[c].channelId
            /\ \A d \in Clients \ { c } : insertResult'[d] = insertResult[d]

OneInsertPerSubmission == \A c \in Clients : insertAttempts[c] <= 1

\* C16: a submission that ends in "already exists", generic failure or the
\* redirect to login has not changed the store; a store change is one form's
\* accepted insert of its record; nothing is updated or deleted; a submission
\* issues at most one insert.
C16_RegistrationFrame ==
    /\ [](\A c \in Clients : EndsWithoutSuccess(c) => insertResult[c] # "ok")
    /\ []OneInsertPerSubmission
    /\ [][StoreFrame]_vars

\* the parts of C16 other than the first
C16_FrameOfStore == []OneInsertPerSubmission /\ [][StoreFrame]_vars

InFlight(c) == pc[c] \in { "select", "insert", "fetch" }

\* C17: the loading flag of a form is set exactly while a submission of it is
\* in flight: set from its start, cleared at its end on every path.
C17_LoadingWhileInFlight ==
    \A c \in Clients : isLoading[c] <=> InFlight(c)

C17_Witness ==
    \E c, d \in Clients :
        /\ pc[c] = "done" /\ ~isLoading[c]
        /\ toasts[c] = << ToastAdded, ToastError >>
        /\ pc[d] = "fetch" /\ isLoading[d]

\* C18: a submission has triggered the video fetch at most once, and only for
\* its own channelId after its insert succeeded and its success notification
\* was emitted.
C18_FetchOnlyAfterSuccess ==
    \A c \in Clients :
        /\ Len(fetchCalls[c]) <= 1
        /\ fetchCalls[c] # <<>>
           => /\ fetchCalls[c] = << values[c].channelId >>
              /\ checkResult[c] = "absent"
              /\ insertResult[c] = "ok"
              /\ toasts[c] # <<>> /\ toasts[c][1] = ToastAdded
              /\ NewRecord(values[c]) \in store

C18_Witness ==
    \E c, d \in Clients :
        /\ Len(fetchCalls[c]) = 1 /\ pc[c] = "done"
        /\ insertResult[d] = "23505" /\ pc[d] = "done" /\ fetchCalls[d] = <<>>
====
